---- MODULE Spec2Model ----
(***************************************************************************)
(* Model of screens.py: the multi-screen VLC launcher.                     *)
(*                                                                         *)
(* The main thread runs embed_and_play (list_monitors, the construction    *)
(* loop, the thread-start loop, the Escape binding, the Tk main loop and   *)
(* the final teardown).  Every constructed EmbeddedVLC gets one daemon     *)
(* thread running EmbeddedVLC.play.  The native calls of one thread        *)
(* interleave freely with the native calls of the others.                  *)
(***************************************************************************)
EXTENDS Integers, Sequences, FiniteSets, TLC

\* ------------------------------------------------------------------------
\* Bounds of the model
\* ------------------------------------------------------------------------
MaxMons == 2          \* get_monitors() returns 0..MaxMons monitors
MaxAssign == 2        \* ASSIGNMENTS holds 0..MaxAssign entries

\* Screen numbers an Assignment may name: below, inside and above the range.
Screens == (0 - 1)..(MaxMons + 1)

\* sys.platform values; "other" is any platform none of the branches names.
Platforms == {"linux", "win32", "darwin", "other"}

\* ------------------------------------------------------------------------
\* Configuration constants of the script
\* ------------------------------------------------------------------------
VIDEO_EXTS == {".mp4", ".mkv", ".avi", ".mov", ".wmv", ".flv", ".m4v", ".webm"}
PLAYLIST_EXTS == {".m3u", ".m3u8", ".xspf"}
LOOP_PLAYLIST == TRUE
SHUFFLE_PLAYLIST == FALSE

\* ------------------------------------------------------------------------
\* The file system the sources live in.  A path is a sequence of tokens
\* (separators, drive names and names); a text line and a URL are token
\* sequences too.
\* ------------------------------------------------------------------------
VARIABLE doc      \* the file-system object the path "source" names

Cwd(plat) == IF plat = "win32" THEN <<"C:", "/", "cwd">> ELSE <<"/", "cwd">>

NoFile == [exists |-> FALSE, is_dir |-> FALSE, is_file |-> FALSE,
           suffix |-> "", dir |-> <<".">>, lines |-> <<>>, locations |-> <<>>,
           children |-> <<>>, readable |-> TRUE]

File(sfx) == [NoFile EXCEPT !.exists = TRUE, !.is_file = TRUE, !.suffix = sfx]

Dir(kids) == [NoFile EXCEPT !.exists = TRUE, !.is_dir = TRUE, !.children = kids]

\* Directory children are given in the sorted order of their names.
FS ==
  [p \in {"missing.mp4", "clip.mp4", "notes.txt", "videos", "emptydir",
          "dir/list.m3u", "empty.m3u", "tracks.xspf", "broken.xspf", "fifo",
          "source"} |->
    CASE p = "missing.mp4" -> NoFile
      [] p = "source"      -> doc
      [] p = "clip.mp4"    -> File(".mp4")
      [] p = "notes.txt"   -> File(".txt")
      [] p = "videos"      -> Dir(<< [name |-> "a.mkv", is_file |-> TRUE, suffix |-> ".mkv"],
                                     [name |-> "b.mp4", is_file |-> TRUE, suffix |-> ".mp4"],
                                     [name |-> "readme.txt", is_file |-> TRUE, suffix |-> ".txt"],
                                     [name |-> "sub.mp4", is_file |-> FALSE, suffix |-> ".mp4"] >>)
      [] p = "emptydir"    -> Dir(<< [name |-> "readme.txt", is_file |-> TRUE, suffix |-> ".txt"] >>)
      [] p = "dir/list.m3u" -> [File(".m3u") EXCEPT !.dir = <<"dir">>, !.lines =
                                 << <<"#", "EXTM3U">>, <<>>, <<" ", "clip.mp4", " ">>,
                                    <<"/", "abs", "/", "b.mp4">> >>]
      [] p = "empty.m3u"   -> [File(".m3u") EXCEPT !.lines =
                                 << <<"#", "EXTM3U">>, <<" ">>, <<>> >>]
      [] p = "tracks.xspf" -> [File(".xspf") EXCEPT !.locations =
                                 << [scheme |-> "file",
                                     path |-> <<"/", "C:", "/", "a%20b.mp4">>,
                                     text |-> <<"file:", "/", "/", "/", "C:", "/", "a%20b.mp4">>],
                                    [scheme |-> "", path |-> <<"rel.mp4">>,
                                     text |-> <<"rel.mp4">>],
                                    [scheme |-> "https", path |-> <<"/", "stream">>,
                                     text |-> <<"https:", "/", "/", "host", "/", "stream">>] >>]
      [] p = "broken.xspf" -> [File(".xspf") EXCEPT !.readable = FALSE]
      [] p = "fifo"        -> [NoFile EXCEPT !.exists = TRUE] ]

\* The sources the assignments of a run are drawn from: a path that does
\* not exist, a playlist without entries and a video file.
AssignPaths == {"missing.mp4", "empty.m3u", "clip.mp4"}

\* ------------------------------------------------------------------------
\* Pure helpers
\* ------------------------------------------------------------------------
RECURSIVE lstrip(_)
lstrip(s) == IF s # <<>> /\ Head(s) = " " THEN lstrip(Tail(s)) ELSE s

RECURSIVE rstrip(_)
rstrip(s) ==
  IF s # <<>> /\ s[Len(s)] = " " THEN rstrip(SubSeq(s, 1, Len(s) - 1)) ELSE s

strip(s) == rstrip(lstrip(s))

Rooted(s) == s # <<>> /\ Head(s) = "/"

DriveRooted(s) == Len(s) >= 2 /\ s[1] = "C:" /\ s[2] = "/"

\* os.path.isabs: on Windows a rooted path without a drive counts as well.
isabs(plat, s) == IF plat = "win32" THEN Rooted(s) \/ DriveRooted(s) ELSE Rooted(s)

\* pathlib.Path.is_absolute: on Windows it takes a drive and a root.
is_absolute(plat, s) == IF plat = "win32" THEN DriveRooted(s) ELSE Rooted(s)

\* pathlib.Path.resolve(): an absolute path stays, a path with a root and no
\* drive gets the current drive, any other is taken against the cwd.
resolve(plat, s) ==
  IF is_absolute(plat, s) THEN s
  ELSE IF plat = "win32" /\ Rooted(s) THEN <<"C:">> \o s
  ELSE IF s = <<>> THEN Cwd(plat)
  ELSE Cwd(plat) \o <<"/">> \o s

\* The directory that contains the document.
parent(p) == FS[p].dir

\* dir / s, as pathlib joins them: a rooted or absolute s replaces dir, and
\* "." contributes nothing.
join(plat, dir, s) ==
  IF isabs(plat, s) \/ dir = <<".">> THEN s
  ELSE IF s = <<>> THEN dir
  ELSE dir \o <<"/">> \o s

\* urllib.parse.unquote on the tokens of a path.
unquote(s) == [k \in 1..Len(s) |-> IF s[k] = "a%20b.mp4" THEN "a b.mp4" ELSE s[k]]

\* str.lower() on the suffixes that occur.
lower(sfx) ==
  CASE sfx = ".MP4" -> ".mp4"
    [] sfx = ".M3U8" -> ".m3u8"
    [] sfx = ".XSPF" -> ".xspf"
    [] OTHER -> sfx

is_video_file(sfx) == lower(sfx) \in VIDEO_EXTS

is_playlist_file(sfx) == lower(sfx) \in PLAYLIST_EXTS

\* A variant of the loop of parse_m3u that tests for '#' without stripping
\* the line first.
RECURSIVE parse_m3u_lines_NoStrip(_, _, _)
parse_m3u_lines_NoStrip(plat, p, ls) ==
  IF ls = <<>> THEN <<>>
  ELSE LET line == strip(Head(ls))
           rest == parse_m3u_lines_NoStrip(plat, p, Tail(ls))
       IN IF line = <<>> \/ Head(Head(ls)) = "#" THEN rest
          ELSE IF ~isabs(plat, line)
               THEN <<resolve(plat, join(plat, parent(p), line))>> \o rest
               ELSE <<line>> \o rest

RECURSIVE parse_m3u_lines(_, _, _)
parse_m3u_lines(plat, p, ls) ==
  IF ls = <<>> THEN <<>>
  ELSE LET line == strip(Head(ls))
           rest == parse_m3u_lines(plat, p, Tail(ls))
       IN IF line = <<>> \/ Head(line) = "#" THEN rest
          ELSE IF ~isabs(plat, line)
               THEN <<resolve(plat, join(plat, parent(p), line))>> \o rest
               ELSE <<line>> \o rest

parse_m3u(plat, p) ==
  IF FS[p].readable THEN parse_m3u_lines(plat, p, FS[p].lines) ELSE <<>>

RECURSIVE parse_xspf_locs(_, _, _)
parse_xspf_locs(plat, p, locs) ==
  IF locs = <<>> THEN <<>>
  ELSE LET loc  == Head(locs)
           rest == parse_xspf_locs(plat, p, Tail(locs))
           dec  == unquote(loc.path)
           path == IF plat = "win32" /\ Rooted(dec) THEN Tail(dec) ELSE dec
       IN IF loc.scheme \in {"file", ""}
          THEN IF ~is_absolute(plat, path)
               THEN <<resolve(plat, join(plat, parent(p), path))>> \o rest
               ELSE <<path>> \o rest
          ELSE <<loc.text>> \o rest

parse_xspf(plat, p) ==
  IF FS[p].readable THEN parse_xspf_locs(plat, p, FS[p].locations) ELSE <<>>

RECURSIVE scan_children(_, _, _)
scan_children(plat, p, kids) ==
  IF kids = <<>> THEN <<>>
  ELSE LET k == Head(kids)
           rest == scan_children(plat, p, Tail(kids))
       IN IF k.is_file /\ is_video_file(k.suffix)
          THEN <<resolve(plat, <<p, "/", k.name>>)>> \o rest
          ELSE rest

scan_directory(plat, p) == scan_children(plat, p, FS[p].children)

\* A variant of resolve_playlist_sources that returns the empty scan of a
\* directory without a message.
resolve_playlist_sources_SilentDir(plat, p) ==
  LET f == FS[p] IN
  IF ~f.exists THEN [items |-> <<>>, msgs |-> 1]
  ELSE IF f.is_dir THEN [items |-> scan_directory(plat, p), msgs |-> 0]
  ELSE IF f.is_file
       THEN IF is_playlist_file(f.suffix)
            THEN LET items == IF lower(f.suffix) \in {".m3u", ".m3u8"}
                              THEN parse_m3u(plat, p) ELSE parse_xspf(plat, p)
                     read  == IF f.readable THEN 0 ELSE 1
                 IN [items |-> items,
                     msgs |-> read + (IF items = <<>> THEN 1 ELSE 0)]
            ELSE IF is_video_file(f.suffix)
                 THEN [items |-> <<resolve(plat, <<p>>)>>, msgs |-> 0]
                 ELSE [items |-> <<>>, msgs |-> 1]
  ELSE [items |-> <<>>, msgs |-> 1]

\* Returns the playable items and the number of "[!]" messages printed.
resolve_playlist_sources(plat, p) ==
  LET f == FS[p] IN
  IF ~f.exists THEN [items |-> <<>>, msgs |-> 1]
  ELSE IF f.is_dir
       THEN LET items == scan_directory(plat, p)
            IN [items |-> items, msgs |-> IF items = <<>> THEN 1 ELSE 0]
  ELSE IF f.is_file
       THEN IF is_playlist_file(f.suffix)
            THEN LET items == IF lower(f.suffix) \in {".m3u", ".m3u8"}
                              THEN parse_m3u(plat, p) ELSE parse_xspf(plat, p)
                     read  == IF f.readable THEN 0 ELSE 1
                 IN [items |-> items,
                     msgs |-> read + (IF items = <<>> THEN 1 ELSE 0)]
            ELSE IF is_video_file(f.suffix)
                 THEN [items |-> <<resolve(plat, <<p>>)>>, msgs |-> 0]
                 ELSE [items |-> <<>>, msgs |-> 1]
  ELSE [items |-> <<>>, msgs |-> 1]

\* ------------------------------------------------------------------------
\* Monitors
\* ------------------------------------------------------------------------
Monitor(k) == [x |-> k - 1, y |-> 0, width |-> 1, height |-> 1]

NoMonitor == [x |-> 0 - 1, y |-> 0 - 1, width |-> 0, height |-> 0]

\* What get_monitors() can do: raise, or return 0..MaxMons rectangles.
GetMonitorsResults ==
  {[raises |-> TRUE, mons |-> <<>>]} \cup
  {[raises |-> FALSE, mons |-> [k \in 1..n |-> Monitor(k)]] : n \in 0..MaxMons}

\* Exit codes of the process.
ExitNoMonitors == 2
ExitEnumError == 1
ExitStartError == 1
ExitNormal == 0
\* The status of a process killed by a fault inside the native library.
ExitNativeFault == 128 + 11

\* list_monitors(): the exit code it ends the process with, or 0 - 1 when
\* it returns the monitors.  sys.exit(2) raises SystemExit, which the
\* "except Exception" clause does not catch.
list_monitors(r) ==
  IF r.raises THEN [exits |-> TRUE, code |-> ExitEnumError, mons |-> <<>>]
  ELSE IF r.mons = <<>> THEN [exits |-> TRUE, code |-> ExitNoMonitors, mons |-> <<>>]
  ELSE [exits |-> FALSE, code |-> 0 - 1, mons |-> r.mons]

\* Python's seq[k]: 0-based, a negative k counts from the end.
PyIndex(seq, k) ==
  IF k >= 0 /\ k < Len(seq) THEN [ok |-> TRUE, mon |-> seq[k + 1]]
  ELSE IF k < 0 /\ 0 - k <= Len(seq) THEN [ok |-> TRUE, mon |-> seq[Len(seq) + k + 1]]
  ELSE [ok |-> FALSE, mon |-> NoMonitor]

\* Variants of monitor_for with a plausible slip in them.
monitor_for_NoLowerBound(ms, idx) ==
  IF idx > Len(ms) THEN [ok |-> FALSE, mon |-> NoMonitor]
  ELSE PyIndex(ms, idx - 1)

monitor_for_ZeroBased(ms, idx) ==
  IF idx < 1 \/ idx > Len(ms) THEN [ok |-> FALSE, mon |-> NoMonitor]
  ELSE PyIndex(ms, idx)

monitor_for(ms, idx) ==
  IF idx < 1 \/ idx > Len(ms) THEN [ok |-> FALSE, mon |-> NoMonitor]
  ELSE PyIndex(ms, idx - 1)

\* ------------------------------------------------------------------------
\* EmbeddedVLC
\* ------------------------------------------------------------------------
\* The native media player is created with one reference and the list
\* player takes a second one in set_media_player.
PlayerRefs == 1 + 1

NoSession ==
  [top |-> "none", geometry |-> NoMonitor, instance |-> FALSE, items |-> <<>>,
   player |-> "none", refs |-> 0, list_player |-> FALSE, mode |-> "none",
   bound |-> "none", playing |-> FALSE, fullscreen |-> FALSE, log |-> <<>>]

PlaybackMode ==
  IF SHUFFLE_PLAYLIST THEN "random" ELSE IF LOOP_PLAYLIST THEN "loop" ELSE "default"

\* The object as far as __init__ gets with it.
Stage1(mon) == [NoSession EXCEPT !.top = "alive", !.geometry = mon, !.instance = TRUE]

Stage2(mon, items) ==
  [Stage1(mon) EXCEPT !.items = items, !.player = "alive", !.refs = PlayerRefs,
                      !.list_player = TRUE, !.mode = PlaybackMode]

\* A variant of __init__ that forgets the check of the resolved items.
EmbeddedVLC_init_NoEmptyCheck(mon, path, plat) ==
  LET r == resolve_playlist_sources(plat, path) IN
  IF plat = "darwin"
  THEN [error |-> "PlatformUnsupported", msgs |-> r.msgs, s |-> Stage2(mon, r.items)]
  ELSE [error |-> "none", msgs |-> r.msgs,
        s |-> [Stage2(mon, r.items) EXCEPT !.bound =
                 IF plat = "linux" THEN "xwindow"
                 ELSE IF plat = "win32" THEN "hwnd" ELSE "none"]]

\* EmbeddedVLC.__init__: the error it raises ("none" when it returns), the
\* messages the resolver printed, and the resources it has created.
EmbeddedVLC_init(mon, path, plat) ==
  LET r == resolve_playlist_sources(plat, path) IN
  IF r.items = <<>>
  THEN [error |-> "EmptyPlaylist", msgs |-> r.msgs, s |-> Stage1(mon)]
  ELSE IF plat = "darwin"
  THEN [error |-> "PlatformUnsupported", msgs |-> r.msgs, s |-> Stage2(mon, r.items)]
  ELSE [error |-> "none", msgs |-> r.msgs,
        s |-> [Stage2(mon, r.items) EXCEPT !.bound =
                 IF plat = "linux" THEN "xwindow"
                 ELSE IF plat = "win32" THEN "hwnd" ELSE "none"]]

NoOps == [stopCalls |-> 0, stopDone |-> 0, lpStops |-> 0, releases |-> 0, destroys |-> 0]

\* ------------------------------------------------------------------------
\* State
\* ------------------------------------------------------------------------
VARIABLES
  faults,       \* whether a call into libvlc or Tk can raise in this run
  res,          \* the result of the last call of the resolver on "source"
  platform,     \* sys.platform
  monitors,     \* what get_monitors() does in this run
  assignments,  \* ASSIGNMENTS
  pc,           \* where the main thread is
  i,            \* index of the loop the main thread is in
  sub,          \* the statement of stop() the main thread is at
  mons,         \* the list list_monitors returned
  players,      \* the list players: indices of the assignments constructed
  sess,         \* per assignment: the EmbeddedVLC object and its resources
  lookup,       \* per assignment: what monitor_for did ("none" before)
  th,           \* per assignment: where its play thread is
  ops,          \* per assignment: the calls stop() has issued so far
  err,          \* the exception caught at "except Exception as e"
  nReported,    \* "[!] Error al iniciar reproductores" messages printed
  nResolverMsgs,\* "[!]" messages printed by the resolver
  escapeFired,  \* on_escape has been invoked
  cause,        \* why the process ended
  exitCode      \* the exit code of the process (0 - 1 while it runs)

vars == <<doc, faults, res, platform, monitors, assignments, pc, i, sub, mons, players, sess,
          lookup, th, ops, err, nReported, nResolverMsgs, escapeFired,
          cause, exitCode>>

inputs == <<doc, faults, res, platform, monitors, assignments>>

NoResult == [op |-> "none", items |-> <<>>, msgs |-> 0]

Assignment == [path : AssignPaths, screen : Screens]

AssignmentLists == UNION {[1..n -> Assignment] : n \in 0..MaxAssign}

N == Len(assignments)

\* The state main() starts embed_and_play in.
Start ==
  /\ doc = NoFile
  /\ res = NoResult
  /\ pc = "list_monitors"
  /\ i = 1
  /\ sub = "lp_stop"
  /\ mons = <<>>
  /\ players = <<>>
  /\ sess = [a \in 1..Len(assignments) |-> NoSession]
  /\ lookup = [a \in 1..Len(assignments) |-> "none"]
  /\ th = [a \in 1..Len(assignments) |-> "none"]
  /\ ops = [a \in 1..Len(assignments) |-> NoOps]
  /\ err = [at |-> 0, kind |-> "none"]
  /\ nReported = 0
  /\ nResolverMsgs = 0
  /\ escapeFired = FALSE
  /\ cause = "running"
  /\ exitCode = 0 - 1

\* Runs in which every call into libvlc and Tk returns normally.
Init ==
  /\ faults = FALSE
  /\ platform \in Platforms
  /\ monitors \in GetMonitorsResults
  /\ assignments \in AssignmentLists
  /\ Start

\* Runs in which those calls can raise: one platform, every monitor
\* present, every assignment on the first screen.
InitFaults ==
  /\ faults = TRUE
  /\ platform = "linux"
  /\ monitors = [raises |-> FALSE, mons |-> [k \in 1..MaxMons |-> Monitor(k)]]
  /\ assignments \in {as \in AssignmentLists : \A a \in 1..Len(as) : as[a].screen = 1}
  /\ Start


\* ------------------------------------------------------------------------
\* The main thread: embed_and_play
\* ------------------------------------------------------------------------
StopContexts == {"except", "on_escape", "finally"}

Running == pc # "exited"

\* mons = list_monitors()
ListMonitors ==
  /\ pc = "list_monitors"
  /\ LET r == list_monitors(monitors) IN
       IF r.exits
       THEN /\ pc' = "exited"
            /\ exitCode' = r.code
            /\ cause' = IF monitors.raises THEN "enum_error" ELSE "no_monitors"
            /\ UNCHANGED mons
       ELSE /\ pc' = IF N = 0 THEN "bind" ELSE "construct"
            /\ mons' = r.mons
            /\ UNCHANGED <<exitCode, cause>>
  /\ UNCHANGED <<inputs, i, sub, players, sess, lookup, th, ops, err,
                 nReported, nResolverMsgs, escapeFired>>

\* One iteration of "for a in assignments": monitor_for, EmbeddedVLC(...),
\* players.append(p); an exception lands in the except clause, which
\* prints its message first.
Construct ==
  /\ pc = "construct"
  /\ i <= N
  /\ LET a == assignments[i]
         m == monitor_for(mons, a.screen)
         c == EmbeddedVLC_init(m.mon, a.path, platform)
     IN IF ~m.ok
        THEN /\ lookup' = [lookup EXCEPT ![i] = "IndexError"]
             /\ err' = [at |-> i, kind |-> "ScreenOutOfRange"]
             /\ nReported' = nReported + 1
             /\ pc' = "except"
             /\ i' = 1
             /\ UNCHANGED <<sess, players, nResolverMsgs>>
        ELSE /\ lookup' = [lookup EXCEPT ![i] = "ok"]
             /\ sess' = [sess EXCEPT ![i] = c.s]
             /\ nResolverMsgs' = nResolverMsgs + c.msgs
             /\ IF c.error # "none"
                THEN /\ err' = [at |-> i, kind |-> c.error]
                     /\ nReported' = nReported + 1
                     /\ pc' = "except"
                     /\ i' = 1
                     /\ UNCHANGED players
                ELSE /\ players' = Append(players, i)
                     /\ pc' = IF i < N THEN "construct" ELSE "start_threads"
                     /\ i' = IF i < N THEN i + 1 ELSE 1
                     /\ UNCHANGED <<err, nReported>>
  /\ sub' = "lp_stop"
  /\ UNCHANGED <<inputs, mons, th, ops, escapeFired, cause, exitCode>>

\* One iteration of "for p in players": threading.Thread(...).start()
StartThread ==
  /\ pc = "start_threads"
  /\ i <= Len(players)
  /\ th' = [th EXCEPT ![players[i]] = "started"]
  /\ pc' = IF i < Len(players) THEN "start_threads" ELSE "bind"
  /\ i' = IF i < Len(players) THEN i + 1 ELSE 1
  /\ UNCHANGED <<inputs, sub, mons, players, sess, lookup, ops, err,
                 nReported, nResolverMsgs, escapeFired, cause, exitCode>>

\* A variant that binds the key and enters the main loop while the threads
\* are still being started.
BindEscape_Early ==
  /\ pc \in {"start_threads", "bind"}
  /\ pc' = "mainloop"
  /\ UNCHANGED <<inputs, i, sub, mons, players, sess, lookup, th, ops, err,
                 nReported, nResolverMsgs, escapeFired, cause, exitCode>>

\* root.bind_all('<Escape>', on_escape); root.mainloop() is entered.
BindEscape ==
  /\ pc = "bind"
  /\ pc' = "mainloop"
  /\ UNCHANGED <<inputs, i, sub, mons, players, sess, lookup, th, ops, err,
                 nReported, nResolverMsgs, escapeFired, cause, exitCode>>

\* The main loop delivers the Escape key: on_escape starts.
Escape ==
  /\ pc = "mainloop"
  /\ pc' = "on_escape"
  /\ escapeFired' = TRUE
  /\ i' = 1
  /\ sub' = "lp_stop"
  /\ UNCHANGED <<inputs, mons, players, sess, lookup, th, ops, err,
                 nReported, nResolverMsgs, cause, exitCode>>

\* A variant of stop() with one try block around its three statements: a
\* raise in the first one skips the other two.
StopPlayback_OneTry ==
  /\ pc \in StopContexts
  /\ i <= Len(players)
  /\ sub = "lp_stop"
  /\ LET a == players[i] IN
       \/ /\ sess' = [sess EXCEPT ![a].playing = FALSE]
          /\ ops' = [ops EXCEPT ![a].stopCalls = @ + 1, ![a].lpStops = @ + 1]
          /\ sub' = "release"
          /\ UNCHANGED i
       \/ /\ faults
          /\ ops' = [ops EXCEPT ![a].stopCalls = @ + 1, ![a].lpStops = @ + 1,
                                ![a].stopDone = @ + 1]
          /\ i' = i + 1
          /\ UNCHANGED <<sess, sub>>
  /\ UNCHANGED <<inputs, pc, mons, players, lookup, th, err, nReported,
                 nResolverMsgs, escapeFired, cause, exitCode>>

\* stop(), first statement: self.list_player.stop() inside try/except.
\* The call stops playback, or raises and changes nothing.
StopPlayback ==
  /\ pc \in StopContexts
  /\ i <= Len(players)
  /\ sub = "lp_stop"
  /\ LET a == players[i] IN
       /\ \/ sess' = [sess EXCEPT ![a].playing = FALSE]
          \/ faults /\ UNCHANGED sess
       /\ ops' = [ops EXCEPT ![a].stopCalls = @ + 1, ![a].lpStops = @ + 1]
  /\ sub' = "release"
  /\ UNCHANGED <<inputs, pc, i, mons, players, lookup, th, err, nReported,
                 nResolverMsgs, escapeFired, cause, exitCode>>

\* stop(), second statement: self.player.release() inside try/except.
\* The call drops a reference, or raises and changes nothing.
ReleasePlayer ==
  /\ pc \in StopContexts
  /\ i <= Len(players)
  /\ sub = "release"
  /\ LET a == players[i] IN
       /\ \/ sess' = [sess EXCEPT ![a].player = "released",
                                  ![a].refs = IF @ > 0 THEN @ - 1 ELSE 0]
          \/ faults /\ UNCHANGED sess
       /\ ops' = [ops EXCEPT ![a].releases = @ + 1]
  /\ sub' = "destroy"
  /\ UNCHANGED <<inputs, pc, i, mons, players, lookup, th, err, nReported,
                 nResolverMsgs, escapeFired, cause, exitCode>>

\* stop(), third statement: self.top.destroy() inside try/except; stop()
\* returns.  The call destroys the window, or raises and changes nothing.
DestroyWindow ==
  /\ pc \in StopContexts
  /\ i <= Len(players)
  /\ sub = "destroy"
  /\ LET a == players[i] IN
       /\ \/ sess' = [sess EXCEPT ![a].top = "destroyed"]
          \/ faults /\ UNCHANGED sess
       /\ ops' = [ops EXCEPT ![a].destroys = @ + 1, ![a].stopDone = @ + 1]
  /\ sub' = "lp_stop"
  /\ i' = i + 1
  /\ UNCHANGED <<inputs, pc, mons, players, lookup, th, err, nReported,
                 nResolverMsgs, escapeFired, cause, exitCode>>

\* A variant of the except clause that exits without its loop over players.
ExitOnError_NoStop ==
  /\ pc = "except"
  /\ pc' = "exited"
  /\ exitCode' = ExitStartError
  /\ cause' = "start_error"
  /\ UNCHANGED <<inputs, i, sub, mons, players, sess, lookup, th, ops, err,
                 nReported, nResolverMsgs, escapeFired>>

\* except clause, after its loop: sys.exit(1)
ExitOnError ==
  /\ pc = "except"
  /\ i > Len(players)
  /\ pc' = "exited"
  /\ exitCode' = ExitStartError
  /\ cause' = "start_error"
  /\ UNCHANGED <<inputs, i, sub, mons, players, sess, lookup, th, ops, err,
                 nReported, nResolverMsgs, escapeFired>>

\* on_escape, after its loop: root.quit(); mainloop returns into "finally".
RootQuit ==
  /\ pc = "on_escape"
  /\ i > Len(players)
  /\ pc' = "finally"
  /\ i' = 1
  /\ sub' = "lp_stop"
  /\ UNCHANGED <<inputs, mons, players, sess, lookup, th, ops, err,
                 nReported, nResolverMsgs, escapeFired, cause, exitCode>>

\* finally clause, after its loop: embed_and_play and main return.
Return ==
  /\ pc = "finally"
  /\ i > Len(players)
  /\ pc' = "exited"
  /\ exitCode' = ExitNormal
  /\ cause' = "normal"
  /\ UNCHANGED <<inputs, i, sub, mons, players, sess, lookup, th, ops, err,
                 nReported, nResolverMsgs, escapeFired>>

\* ------------------------------------------------------------------------
\* The play threads: EmbeddedVLC.play.  They are daemon threads: they take
\* no step once the process has exited.
\* ------------------------------------------------------------------------
\* The native player is freed once every reference to it has been released;
\* the list player and the Python object still point to it.
Freed(a) == sess[a].player = "released" /\ sess[a].refs = 0

NativeFault ==
  /\ pc' = "exited"
  /\ exitCode' = ExitNativeFault
  /\ cause' = "native_fault"

\* self.list_player.play(); the thread then sleeps.  The call starts
\* playback, or raises: nothing in play() or in the thread catches that, so
\* the thread ends there.  On a freed player the call may also do nothing,
\* or fault.
ThreadPlay(a) ==
  /\ Running
  /\ th[a] = "started"
  /\ \/ /\ sess' = [sess EXCEPT ![a].playing = TRUE, ![a].log = Append(@, "play")]
        /\ th' = [th EXCEPT ![a] = "sleeping"]
        /\ UNCHANGED <<pc, exitCode, cause>>
     \/ /\ faults
        /\ sess' = [sess EXCEPT ![a].log = Append(@, "play")]
        /\ th' = [th EXCEPT ![a] = "failed"]
        /\ UNCHANGED <<pc, exitCode, cause>>
     \/ /\ Freed(a)
        /\ sess' = [sess EXCEPT ![a].log = Append(@, "play")]
        /\ th' = [th EXCEPT ![a] = "sleeping"]
        /\ UNCHANGED <<pc, exitCode, cause>>
     \/ /\ Freed(a)
        /\ NativeFault
        /\ sess' = [sess EXCEPT ![a].log = Append(@, "play")]
        /\ UNCHANGED th
  /\ UNCHANGED <<inputs, i, sub, mons, players, lookup, ops, err, nReported,
                 nResolverMsgs, escapeFired>>

\* A variant of play() without the sleep and with the two calls in either
\* order.
ThreadFullscreen_NoDelay(a) ==
  /\ Running
  /\ th[a] \in {"started", "sleeping"}
  /\ \/ sess' = [sess EXCEPT ![a].fullscreen = TRUE,
                            ![a].log = Append(@, "set_fullscreen")]
     \/ sess' = [sess EXCEPT ![a].log = Append(@, "set_fullscreen")]
  /\ th' = [th EXCEPT ![a] = IF th[a] = "sleeping" THEN "done" ELSE "started"]
  /\ Len(sess[a].log) < 2
  /\ UNCHANGED <<inputs, pc, exitCode, cause, i, sub, mons, players, lookup, ops,
                 err, nReported, nResolverMsgs, escapeFired>>

\* time.sleep(0.2) is over; self.player.set_fullscreen(True) inside
\* try/except.  The request may fail; on a freed player it may fault.
ThreadFullscreen(a) ==
  /\ Running
  /\ th[a] = "sleeping"
  /\ \/ /\ sess' = [sess EXCEPT ![a].fullscreen = TRUE,
                               ![a].log = Append(@, "set_fullscreen")]
        /\ th' = [th EXCEPT ![a] = "done"]
        /\ UNCHANGED <<pc, exitCode, cause>>
     \/ /\ sess' = [sess EXCEPT ![a].log = Append(@, "set_fullscreen")]
        /\ th' = [th EXCEPT ![a] = "done"]
        /\ UNCHANGED <<pc, exitCode, cause>>
     \/ /\ Freed(a)
        /\ NativeFault
        /\ sess' = [sess EXCEPT ![a].log = Append(@, "set_fullscreen")]
        /\ UNCHANGED th
  /\ UNCHANGED <<inputs, i, sub, mons, players, lookup, ops, err, nReported,
                 nResolverMsgs, escapeFired>>

Next ==
  \/ ListMonitors
  \/ Construct
  \/ StartThread
  \/ BindEscape
  \/ Escape
  \/ StopPlayback
  \/ ReleasePlayer
  \/ DestroyWindow
  \/ ExitOnError
  \/ RootQuit
  \/ Return
  \/ \E a \in 1..N : ThreadPlay(a)
  \/ \E a \in 1..N : ThreadFullscreen(a)

Spec == Init /\ [][Next]_vars

SpecFaults == InitFaults /\ [][Next]_vars


\* ------------------------------------------------------------------------
\* The resolver on its own: resolve_playlist_sources and parse_m3u applied
\* to one file-system object drawn from a bounded set.
\* ------------------------------------------------------------------------
MaxLines == 2         \* a line-oriented document holds 0..MaxLines lines
MaxLocs == 2          \* a tracklist holds 0..MaxLocs track locations

\* The lines a line-oriented document is made of.
LineSet ==
  { <<>>, <<" ">>, <<"#", "EXTM3U">>, <<" ", "#", "c">>,
    <<"clip.mp4">>, <<" ", "clip.mp4", " ">>, <<"/", "abs", "/", "b.mp4">>,
    <<"C:", "/", "w.mp4">>, <<"http:", "/", "/", "host", "/", "s">> }

\* The track locations of a tracklist, as urlparse splits them.
LocSet ==
  { [scheme |-> "file", path |-> <<"/", "C:", "/", "a%20b.mp4">>,
     text |-> <<"file:", "/", "/", "/", "C:", "/", "a%20b.mp4">>],
    [scheme |-> "file", path |-> <<"/", "abs", "/", "a.mp4">>,
     text |-> <<"file:", "/", "/", "/", "abs", "/", "a.mp4">>],
    [scheme |-> "", path |-> <<"rel.mp4">>, text |-> <<"rel.mp4">>],
    [scheme |-> "", path |-> <<>>, text |-> <<>>],
    [scheme |-> "https", path |-> <<"/", "stream">>,
     text |-> <<"https:", "/", "/", "host", "/", "stream">>],
    [scheme |-> "rtsp", path |-> <<"/", "cam">>,
     text |-> <<"rtsp:", "/", "/", "host", "/", "cam">>],
    [scheme |-> "my", path |-> <<"clip.mp4">>, text |-> <<"my:", "clip.mp4">>] }

SeqsUpTo(S, n) == UNION {[1..k -> S] : k \in 0..n}

\* The entries of a directory, in the sorted order of their names.
KidSeqs ==
  LET all == FS["videos"].children
      pick(m) == SelectSeq([k \in 1..Len(all) |-> [kid |-> all[k], on |-> m[k]]],
                           LAMBDA e : e.on)
  IN {[k \in 1..Len(pick(m)) |-> pick(m)[k].kid] : m \in [1..Len(all) -> BOOLEAN]}

DocDirs == {<<".">>, <<"dir">>}

DocSet ==
  {NoFile, [NoFile EXCEPT !.exists = TRUE]}
  \cup {File(sfx) : sfx \in {".mp4", ".MP4", ".txt", ""}}
  \cup {Dir(kids) : kids \in KidSeqs}
  \cup {[File(sfx) EXCEPT !.dir = d, !.lines = ls] :
          sfx \in {".m3u", ".M3U8"}, d \in DocDirs, ls \in SeqsUpTo(LineSet, MaxLines)}
  \cup {[File(sfx) EXCEPT !.dir = d, !.locations = locs] :
          sfx \in {".xspf"}, d \in DocDirs, locs \in SeqsUpTo(LocSet, MaxLocs)}
  \cup {[File(sfx) EXCEPT !.readable = FALSE] : sfx \in {".m3u", ".xspf"}}

InitResolve ==
  /\ doc \in DocSet
  /\ faults = FALSE
  /\ res = NoResult
  /\ platform \in Platforms
  /\ monitors = [raises |-> FALSE, mons |-> <<>>]
  /\ assignments = <<>>
  /\ pc = "resolver"
  /\ i = 1
  /\ sub = "lp_stop"
  /\ mons = <<>>
  /\ players = <<>>
  /\ sess = <<>>
  /\ lookup = <<>>
  /\ th = <<>>
  /\ ops = <<>>
  /\ err = [at |-> 0, kind |-> "none"]
  /\ nReported = 0
  /\ nResolverMsgs = 0
  /\ escapeFired = FALSE
  /\ cause = "running"
  /\ exitCode = 0 - 1

Others == <<platform, monitors, assignments, pc, i, sub, mons, players, sess,
            lookup, th, ops, err, nReported, nResolverMsgs, escapeFired,
            cause, exitCode>>

\* resolve_playlist_sources("source")
ResolveSource ==
  /\ pc = "resolver"
  /\ res.op = "none"
  /\ LET r == resolve_playlist_sources(platform, "source")
     IN res' = [op |-> "resolve_playlist_sources", items |-> r.items, msgs |-> r.msgs]
  /\ UNCHANGED <<doc, faults, Others>>

\* parse_m3u(pathlib.Path("source")) on a file
ParseM3U ==
  /\ pc = "resolver"
  /\ res.op = "none"
  /\ doc.is_file
  /\ res' = [op |-> "parse_m3u", items |-> parse_m3u(platform, "source"),
             msgs |-> IF doc.readable THEN 0 ELSE 1]
  /\ UNCHANGED <<doc, faults, Others>>

NextResolve == ResolveSource \/ ParseM3U

SpecResolve == InitResolve /\ [][NextResolve]_vars

\* ------------------------------------------------------------------------
\* Derived notions
\* ------------------------------------------------------------------------
InRange(scr) == scr >= 1 /\ scr <= Len(monitors.mons)

Playable(path) == resolve_playlist_sources(platform, path).items # <<>>

Constructed == {players[k] : k \in 1..Len(players)}

\* The state of a session as the specification names it.
State(a) ==
  IF sess[a].top = "none" THEN "None"
  ELSE IF sess[a].playing THEN "Playing"
  ELSE IF ops[a].stopDone >= 1 THEN "Stopped"
  ELSE IF ops[a].stopCalls >= 1 THEN "Stopping"
  ELSE "Constructing"

\* ------------------------------------------------------------------------
\* C1
\* ------------------------------------------------------------------------
\* Two assignments on two monitors, both screens in range, one source
\* playable and the other a file that does not exist.
C1_Scenario ==
  /\ N = 2
  /\ ~monitors.raises
  /\ Len(monitors.mons) = 2
  /\ platform \in {"linux", "win32"}
  /\ \A a \in 1..N : InRange(assignments[a].screen)
  /\ \E a, b \in 1..N :
       /\ a # b
       /\ Playable(assignments[a].path)
       /\ assignments[b].path = "missing.mp4"

\* C1: in that scenario the failing assignment is skipped: one failure is
\* reported, the other session is constructed and started, the process
\* does not exit before the stop trigger has fired, and it exits with
\* code 0 with the surviving session stopped.
C1_SkipAndContinue ==
  C1_Scenario =>
    /\ pc \in {"mainloop", "on_escape", "finally", "exited"} =>
         /\ nReported = 1
         /\ Len(players) = 1
    /\ pc = "exited" =>
         /\ escapeFired
         /\ exitCode = ExitNormal
         /\ \A a \in Constructed : ops[a].stopDone >= 1

\* ------------------------------------------------------------------------
\* C2
\* ------------------------------------------------------------------------
\* C2: when the construction of a session has failed with EmptyPlaylist or
\* PlatformUnsupported and the failure has been reported, nothing that the
\* construction created is still allocated.
C2_FailedConstructionReleasesAll ==
  err.kind \in {"EmptyPlaylist", "PlatformUnsupported"} =>
    /\ sess[err.at].top # "alive"
    /\ ~sess[err.at].instance
    /\ sess[err.at].player # "alive"

\* ------------------------------------------------------------------------
\* C3
\* ------------------------------------------------------------------------
\* C3: once stop() has completed on a session, a further stop() is a
\* no-op: it issues no list_player.stop(), no player.release() and no
\* top.destroy(), and leaves the session as the first call left it.
C3_SecondStopIsNoOp ==
  [][\A a \in 1..N :
       ops[a].stopDone >= 1 =>
         /\ ops'[a].lpStops = ops[a].lpStops
         /\ ops'[a].releases = ops[a].releases
         /\ ops'[a].destroys = ops[a].destroys
         /\ sess'[a].top = sess[a].top
         /\ sess'[a].refs = sess[a].refs]_vars

\* ------------------------------------------------------------------------
\* C4
\* ------------------------------------------------------------------------
\* C4: a run that ends through the stop trigger has called stop() exactly
\* once on every constructed session, released each player exactly once
\* and destroyed each window exactly once.
C4_StopExactlyOnce ==
  (pc = "exited" /\ escapeFired /\ cause = "normal") =>
    \A a \in Constructed :
      /\ ops[a].stopCalls = 1
      /\ ops[a].releases = 1
      /\ ops[a].destroys = 1

\* ------------------------------------------------------------------------
\* C5
\* ------------------------------------------------------------------------
\* C5: no window exists for an assignment whose screen is out of range.
C5_NoWindowOutOfRange ==
  \A a \in 1..N : sess[a].top # "none" => InRange(assignments[a].screen)

\* An assignment with screen 0 or below has been refused after another
\* one got its window.
C5_Witness ==
  \E a, b \in 1..N :
    /\ assignments[a].screen < 1
    /\ lookup[a] = "IndexError"
    /\ sess[a].top = "none"
    /\ sess[b].top = "alive"

\* ------------------------------------------------------------------------
\* C6
\* ------------------------------------------------------------------------
\* C6: the lookup fails for every screen below 1 and above the number of
\* monitors, and for a screen in between it yields the monitor at that
\* position (counted from 1) of the enumeration.
C6_LookupBounds ==
  \A a \in 1..N :
    lookup[a] # "none" =>
      IF assignments[a].screen < 1 \/ assignments[a].screen > Len(monitors.mons)
      THEN lookup[a] = "IndexError" /\ sess[a].geometry = NoMonitor
      ELSE /\ lookup[a] = "ok"
           /\ sess[a].geometry = monitors.mons[assignments[a].screen]

\* The last of several monitors has been looked up, and a screen above the
\* range has been refused.
C6_Witness ==
  \E a, b \in 1..N :
    /\ Len(monitors.mons) >= 2
    /\ assignments[a].screen = Len(monitors.mons)
    /\ lookup[a] = "ok"
    /\ assignments[b].screen > Len(monitors.mons)
    /\ lookup[b] = "IndexError"

\* ------------------------------------------------------------------------
\* C7
\* ------------------------------------------------------------------------
\* C7: every session in the list players, and every session with a play
\* thread, has a non-empty list of items.
C7_LivePlaylistNonEmpty ==
  \A a \in 1..N :
    (a \in Constructed \/ th[a] # "none" \/ sess[a].playing) =>
      sess[a].items # <<>>

\* A session built from a video file is playing its single item.
C7_Witness ==
  \E a \in Constructed :
    /\ assignments[a].path = "clip.mp4"
    /\ sess[a].playing
    /\ sess[a].items = <<Cwd(platform) \o <<"/", "clip.mp4">>>>

\* ------------------------------------------------------------------------
\* C8
\* ------------------------------------------------------------------------
\* C8: a session on which stop() has completed and that is Stopped stays
\* Stopped: no later step puts it back into Playing.
C8_NoReturnFromStopped ==
  [][\A a \in 1..N : State(a) = "Stopped" => State(a)' = "Stopped"]_vars

C10_DistinctExitCodes ==
  (pc = "exited" /\ cause \in {"enum_error", "no_monitors"}) =>
    /\ exitCode # ExitNormal
    /\ exitCode # ExitStartError


\* ------------------------------------------------------------------------
\* C11
\* ------------------------------------------------------------------------
NonBlank(l) == \E j \in 1..Len(l) : l[j] # " "

FirstAt(l) == CHOOSE j \in 1..Len(l) : l[j] # " " /\ \A m \in 1..(j - 1) : l[m] = " "

LastAt(l) == CHOOSE j \in 1..Len(l) : l[j] # " " /\ \A m \in (j + 1)..Len(l) : l[m] = " "

\* A line that is an entry: not blank, and not a '#' line once trimmed.
Content(l) == NonBlank(l) /\ l[FirstAt(l)] # "#"

Trim(l) == SubSeq(l, FirstAt(l), LastAt(l))

VideoSuffixes == {".mp4", ".MP4"}

LineListSuffixes == {".m3u", ".M3U8"}

TracklistSuffixes == {".xspf"}

\* The inputs the claim lists: no such path, neither file nor directory, a
\* directory without videos, a file with an unsupported extension, a
\* playlist that cannot be read or holds no entry.
InvalidSource(d) ==
  \/ ~d.exists
  \/ d.exists /\ ~d.is_dir /\ ~d.is_file
  \/ d.is_dir /\ ~\E k \in 1..Len(d.children) :
                     d.children[k].is_file /\ d.children[k].suffix \in {".mkv", ".mp4"}
  \/ d.is_file /\ d.suffix \notin VideoSuffixes \cup LineListSuffixes \cup TracklistSuffixes
  \/ d.is_file /\ d.suffix \in LineListSuffixes \cup TracklistSuffixes /\ ~d.readable
  \/ d.is_file /\ d.suffix \in LineListSuffixes
       /\ ~\E k \in 1..Len(d.lines) : Content(d.lines[k])
  \/ d.is_file /\ d.suffix \in TracklistSuffixes /\ d.locations = <<>>

\* C11: resolve_playlist_sources always returns; for each of the invalid
\* inputs it returns the empty sequence and has printed a reason, and for
\* every other input it returns a non-empty sequence.
C11_EmptyOnlyWithReason ==
  /\ (pc = "resolver" /\ res.op = "none") => ENABLED ResolveSource
  /\ res.op = "resolve_playlist_sources" =>
       /\ (res.items = <<>>) <=> InvalidSource(doc)
       /\ res.items = <<>> => res.msgs >= 1

\* An existing directory without videos has been resolved to nothing.
C11_Witness ==
  /\ res.op = "resolve_playlist_sources"
  /\ doc.is_dir
  /\ Len(doc.children) >= 1
  /\ res.items = <<>>
  /\ res.msgs = 1

\* ------------------------------------------------------------------------
\* C12
\* ------------------------------------------------------------------------
KeptLines == {k \in 1..Len(doc.lines) : Content(doc.lines[k])}

\* The directory a relative entry of the document is taken against.
DocBase ==
  IF doc.dir = <<".">> THEN Cwd(platform) \o <<"/">>
  ELSE Cwd(platform) \o <<"/">> \o doc.dir \o <<"/">>

RelativeEntry(t) ==
  /\ t[1] # "/"
  /\ ~(platform = "win32" /\ Len(t) >= 2 /\ t[1] = "C:" /\ t[2] = "/")

EndsWith(s, t) == Len(s) >= Len(t) /\ SubSeq(s, Len(s) - Len(t) + 1, Len(s)) = t

\* C12: parse_m3u of a readable document returns one entry per line that
\* is, once trimmed, neither blank nor a '#' line, in the order of the
\* lines; a relative entry is the trimmed line taken against the directory
\* of the document, any other entry ends with the trimmed line.
C12_OneEntryPerContentLine ==
  (res.op = "parse_m3u" /\ doc.readable) =>
    /\ Len(res.items) = Cardinality(KeptLines)
    /\ \A k \in KeptLines :
         LET n == Cardinality({j \in KeptLines : j <= k})
             t == Trim(doc.lines[k])
         IN IF RelativeEntry(t) THEN res.items[n] = DocBase \o t
            ELSE EndsWith(res.items[n], t)

\* dir/list.m3u with an indented '#' line and the entry clip.mp4.
C12_Witness ==
  /\ res.op = "parse_m3u"
  /\ platform = "linux"
  /\ doc.dir = <<"dir">>
  /\ doc.lines = << <<" ", "#", "c">>, <<" ", "clip.mp4", " ">> >>
  /\ res.items = << <<"/", "cwd", "/", "dir", "/", "clip.mp4">> >>

\* ------------------------------------------------------------------------
\* C13
\* ------------------------------------------------------------------------
AbsolutePath(s) ==
  IF platform = "win32" THEN Len(s) >= 2 /\ s[1] = "C:" /\ s[2] = "/"
  ELSE s # <<>> /\ s[1] = "/"

\* The text of an http or https location of the document, unchanged.
HttpUrlKept(s) ==
  \E k \in 1..Len(doc.locations) :
    doc.locations[k].scheme \in {"http", "https"} /\ s = doc.locations[k].text

\* C13: every element resolve_playlist_sources returns is an absolute file
\* path or an http/https URL of the document kept unmodified.
C13_AbsoluteOrHttpUrl ==
  res.op = "resolve_playlist_sources" =>
    \A n \in 1..Len(res.items) :
      AbsolutePath(res.items[n]) \/ HttpUrlKept(res.items[n])


\* ------------------------------------------------------------------------
\* C14: when the geometry lookup fails for the k-th assignment the error
\* is reported once, no play thread is ever started and nothing plays, no
\* assignment after the k-th is looked up or constructed, and the process
\* ends with a non-zero code after stop() has run on every session built
\* for assignments 1..k-1.
\* ------------------------------------------------------------------------
C14_LookupFailureFailsRun ==
  err.kind = "ScreenOutOfRange" =>
    /\ nReported = 1
    /\ pc \in {"except", "exited"}
    /\ ~escapeFired
    /\ Constructed = 1..(err.at - 1)
    /\ \A a \in 1..N : th[a] = "none" /\ ~sess[a].playing /\ sess[a].log = <<>>
    /\ \A a \in err.at..N : sess[a].top = "none"
    /\ \A a \in (err.at + 1)..N : lookup[a] = "none"
    /\ pc = "exited" =>
         /\ exitCode # ExitNormal
         /\ exitCode > 0
         /\ \A a \in 1..(err.at - 1) : ops[a].stopDone >= 1

C14_Witness ==
  /\ pc = "exited"
  /\ err = [at |-> 2, kind |-> "ScreenOutOfRange"]
  /\ exitCode = ExitStartError
  /\ ops[1].stopDone = 1
  /\ sess[1].top = "destroyed"

\* ------------------------------------------------------------------------
\* C15: a play thread exists only when every assignment has its window and
\* its engine, with the engine bound to the window; and from then on a
\* thread that sleeps keeps neither another thread from its play call nor
\* the main loop from running on_escape.
\* ------------------------------------------------------------------------
Built(a) ==
  /\ lookup[a] = "ok"
  /\ sess[a].top # "none"
  /\ sess[a].player # "none"
  /\ sess[a].bound # "none"

Sleeping == {a \in 1..N : th[a] = "sleeping"}

C15_PlayAfterAllConstructed ==
  /\ \A a \in 1..N : th[a] # "none" => \A b \in 1..N : Built(b)
  /\ \A a \in Sleeping :
       /\ \A b \in 1..N : (th[b] = "started" /\ Running) => ENABLED ThreadPlay(b)
       /\ pc = "mainloop" => ENABLED Escape

\* ------------------------------------------------------------------------
\* C16: stop() attempts its three statements whatever the outcome of each:
\* outside a call of stop() a session has had as many releases and window
\* destructions attempted as playback stops; inside it the next statement
\* can always run; and no failure of a statement reaches the caller, so a
\* run that ends by itself has completed stop() on every session.  (A
\* process killed by a fault in libvlc ends in the middle of whatever the
\* main thread was doing; no statement of stop() has failed there.)
\* ------------------------------------------------------------------------
InStop(a) == pc \in StopContexts /\ i <= Len(players) /\ players[i] = a

C16_StopBestEffort ==
  /\ cause # "native_fault" => \A a \in 1..N :
       LET o == ops[a] IN
         /\ o.lpStops = o.stopCalls
         /\ o.destroys = o.stopDone
         /\ o.releases = IF InStop(a) /\ sub = "release" THEN o.lpStops - 1 ELSE o.lpStops
         /\ o.destroys = IF InStop(a) /\ sub # "lp_stop" THEN o.lpStops - 1 ELSE o.lpStops
  /\ (pc \in StopContexts /\ i <= Len(players)) =>
       ENABLED (StopPlayback \/ ReleasePlayer \/ DestroyWindow)
  /\ pc \in {"on_escape", "finally"} => err.kind = "none" /\ nReported = 0
  /\ (pc = "exited" /\ cause \in {"normal", "start_error"}) =>
       \A a \in Constructed : ops[a].stopDone >= 1

\* The release failed on one session and its window was destroyed all the
\* same; the window's destruction failed on another whose engine had been
\* released.
C16_Witness ==
  \E a, b \in 1..N :
    /\ ops[a].stopDone = 1 /\ sess[a].player = "alive" /\ sess[a].top = "destroyed"
    /\ ops[b].stopDone = 1 /\ sess[b].player = "released" /\ sess[b].top = "alive"

\* ------------------------------------------------------------------------
\* C17: a thread calls set_fullscreen only as its second call, after its
\* play call and from its sleep; and when the request fails the session
\* plays on as before, the other sessions and their threads are untouched
\* and the process keeps running.
\* ------------------------------------------------------------------------
FullscreenIssued(a) ==
  /\ sess'[a].log # sess[a].log
  /\ sess'[a].log[Len(sess'[a].log)] = "set_fullscreen"

FullscreenFailed(a) ==
  FullscreenIssued(a) /\ ~sess'[a].fullscreen /\ cause' # "native_fault"

C17_FullscreenAfterStart ==
  [][\A a \in 1..N :
       /\ FullscreenIssued(a) => th[a] = "sleeping" /\ sess[a].log = <<"play">>
       /\ FullscreenFailed(a) =>
            /\ sess'[a].playing = sess[a].playing
            /\ pc' = pc /\ exitCode' = exitCode /\ cause' = cause
            /\ \A b \in 1..N \ {a} : sess'[b] = sess[b] /\ th'[b] = th[b]]_vars

C17_Witness ==
  \E a, b \in 1..N :
    /\ a # b
    /\ th[a] = "done" /\ sess[a].log = <<"play", "set_fullscreen">>
    /\ ~sess[a].fullscreen /\ sess[a].playing
    /\ sess[b].playing /\ pc = "mainloop"

\* ------------------------------------------------------------------------
\* C18: when the play call of a session raises, the except clause of
\* embed_and_play reports it for that assignment, the session is taken off
\* the list, and the process goes on.
\* ------------------------------------------------------------------------
C18_StartFailureCaught ==
  \A a \in 1..N : th[a] = "failed" =>
    /\ nReported >= 1
    /\ err.at = a
    /\ a \notin Constructed
    /\ cause \in {"running", "normal"}

\* ------------------------------------------------------------------------
\* C19: once the Escape key is bound every assignment has been looked up
\* and constructed or has failed, every session on the list has its
\* thread started, and the list never changes again; the loop of
\* on_escape has completed stop() on every session on it when it ends.
\* ------------------------------------------------------------------------
Registered == pc \in {"mainloop", "on_escape", "finally"} \/ escapeFired

ListFinal ==
  /\ \A a \in 1..N : lookup[a] # "none"
  /\ \A a \in 1..N : sess[a].player = "none" <=> a \notin Constructed
  /\ \A a \in Constructed : th[a] # "none"
  /\ pc = "finally" => \A a \in Constructed : ops[a].stopDone >= 1

C19_ListFinalBeforeTrigger ==
  [][Registered' => (ListFinal' /\ (Registered => players' = players))]_vars

C19_Witness ==
  /\ pc = "finally"
  /\ Len(players) = MaxAssign
  /\ \A a \in 1..N : ops[a].stopDone = 1

\* ------------------------------------------------------------------------
\* C20: once the engine handle of a session has been released or its
\* window destroyed, its play thread issues no further call on it.
\* ------------------------------------------------------------------------
C20_NoEngineCallAfterRelease ==
  [][\A a \in 1..N :
       (sess[a].player = "released" \/ sess[a].top = "destroyed") =>
          sess'[a].log = sess[a].log]_vars

====
